---- MODULE Spec2Model ----
(***************************************************************************)
(* The MedOrbis chat gateway: the framework-routed server (app/main.py,    *)
(* app/api/v1/chat.py, app/services/chat_service.py) and the stdlib        *)
(* server (app/standalone_server.py), handling one request from its        *)
(* arrival to its response.                                                *)
(*                                                                         *)
(* A text is a sequence of atoms.  An atom is a whitespace character or a  *)
(* run of non-whitespace characters, so that concatenation, strip() and    *)
(* split() act on texts as they act on Python strings.                     *)
(***************************************************************************)
EXTENDS Integers, Sequences, FiniteSets, TLC

\* ---------------------------------------------------------------- bounds
MaxMsgs == 2
MaxHits == 2

\* ----------------------------------------------------------------- texts
IsSpace(a) == a \in {" ", "\n"}

\* str.join over a list of texts
RECURSIVE Join(_, _)
Join(texts, sep) ==
    IF Len(texts) = 0 THEN <<>>
    ELSE IF Len(texts) = 1 THEN texts[1]
    ELSE texts[1] \o sep \o Join(Tail(texts), sep)

\* a fixed phrase: its words separated by single spaces
RECURSIVE Phrase(_)
Phrase(words) ==
    IF Len(words) = 0 THEN <<>>
    ELSE IF Len(words) = 1 THEN <<words[1]>>
    ELSE <<words[1], " ">> \o Phrase(Tail(words))

\* str.strip()
RECURSIVE lstrip(_)
lstrip(s) == IF Len(s) > 0 /\ IsSpace(s[1]) THEN lstrip(Tail(s)) ELSE s

RECURSIVE rstrip(_)
rstrip(s) ==
    IF Len(s) > 0 /\ IsSpace(s[Len(s)]) THEN rstrip(SubSeq(s, 1, Len(s) - 1)) ELSE s

strip(s) == rstrip(lstrip(s))

\* len(text.split()): the number of maximal runs of non-whitespace
SplitLen(s) ==
    Cardinality({i \in 1..Len(s) : ~IsSpace(s[i]) /\ (i = 1 \/ IsSpace(s[i - 1]))})

_word_count(text) == IF text # <<>> THEN SplitLen(text) ELSE 0

\* t occurs in s as a contiguous substring
Contains(s, t) ==
    \E i \in 0..(Len(s) - Len(t)) : SubSeq(s, i + 1, i + Len(t)) = t

\* str(n) for a non-negative integer
DigitAtom(d) == CASE d = 0 -> "0" [] d = 1 -> "1" [] d = 2 -> "2" [] d = 3 -> "3"
                  [] d = 4 -> "4" [] d = 5 -> "5" [] d = 6 -> "6" [] d = 7 -> "7"
                  [] d = 8 -> "8" [] OTHER -> "9"

DigitValue(a) == CASE a = "0" -> 0 [] a = "1" -> 1 [] a = "2" -> 2 [] a = "3" -> 3
                   [] a = "4" -> 4 [] a = "5" -> 5 [] a = "6" -> 6 [] a = "7" -> 7
                   [] a = "8" -> 8 [] a = "9" -> 9 [] OTHER -> -1

RECURSIVE IntStr(_)
IntStr(n) == IF n < 10 THEN <<DigitAtom(n)>> ELSE IntStr(n \div 10) \o <<DigitAtom(n % 10)>>

\* int(text): the value, or ValueError
RECURSIVE DigitsValue(_)
DigitsValue(s) ==
    IF Len(s) = 0 THEN 0
    ELSE 10 * DigitsValue(SubSeq(s, 1, Len(s) - 1)) + DigitValue(s[Len(s)])

int(text) ==
    LET s == strip(text) IN
    IF Len(s) > 0 /\ \A i \in 1..Len(s) : DigitValue(s[i]) >= 0
    THEN [ok |-> TRUE, value |-> DigitsValue(s)]
    ELSE [ok |-> FALSE, value |-> 0]

\* ---------------------------------------------------- JSON / form values
\* A field of a JSON object, a form or a query string: absent, a JSON
\* integer, a string, a string holding the JSON text of a message list, a
\* list of message objects, or a list whose elements are not objects.
Absent == [k |-> "absent", n |-> 0, s |-> <<>>, m |-> <<>>]
IntV(n) == [k |-> "int", n |-> n, s |-> <<>>, m |-> <<>>]
StrV(s) == [k |-> "str", n |-> 0, s |-> s, m |-> <<>>]
JsonStrV(m) == [k |-> "jsonstr", n |-> 0, s |-> <<>>, m |-> m]
ListV(m) == [k |-> "list", n |-> 0, s |-> <<>>, m |-> m]
BadListV == [k |-> "badlist", n |-> 0, s |-> <<>>, m |-> <<>>]

\* Python truthiness of a field value (None, 0, "" and [] are falsy)
Truthy(v) ==
    CASE v.k = "absent" -> FALSE
      [] v.k = "int" -> v.n # 0
      [] v.k = "str" -> v.s # <<>>
      [] v.k = "list" -> v.m # <<>>
      [] OTHER -> TRUE

\* a or b
Or(a, b) == IF Truthy(a) THEN a ELSE b

\* str(v) of a field value; the list that is not a message list is [1]
Str(v) ==
    CASE v.k = "int" -> IntStr(v.n)
      [] v.k = "badlist" -> <<"[1]">>
      [] OTHER -> v.s

\* ------------------------------------------------------------- requests
Servers == {"framework", "stdlib"}

JSON == "application/json"
FORM == "application/x-www-form-urlencoded"
MULTIPART == "multipart/form-data"
PLAIN == "text/plain"
FormTypes == {FORM, MULTIPART}

V1Names == {"user_type", "user_id", "session_id", "user_question",
            "user_department", "user_year", "user_semester", "model"}

FieldNames == V1Names \cup {"Department", "Year", "Semester", "messages", "role", "content"}

NoFields == [f \in FieldNames |-> Absent]

\* the fields a client leaves out: none, any one, or all of them
Omits == {{}} \cup {{f} : f \in V1Names} \cup {V1Names}

Questions == {<<"why">>, <<"why", " ", "now">>}

UserTypeVals(ctype) ==
    IF ctype = JSON
    THEN {IntV(0), IntV(1), StrV(<<"a">>), StrV(<<>>)}
    ELSE {StrV(<<"0">>), StrV(<<"1">>), StrV(<<"a">>), StrV(<<>>)}

\* the v1 fields of a request; capital = TRUE sends the metadata under the
\* names Department / Year / Semester
V1Fields(omit, ut, q, capital) ==
    LET put(name, v) == IF name \in omit THEN Absent ELSE v IN
    [NoFields EXCEPT
        !["user_type"] = put("user_type", ut),
        !["user_id"] = put("user_id", StrV(<<"u7">>)),
        !["session_id"] = put("session_id", StrV(<<"s9">>)),
        !["user_question"] = put("user_question", StrV(q)),
        !["user_department"] = IF capital THEN Absent ELSE put("user_department", StrV(<<"CSE">>)),
        !["user_year"] = IF capital THEN Absent ELSE put("user_year", StrV(<<"2">>)),
        !["user_semester"] = IF capital THEN Absent ELSE put("user_semester", StrV(<<"4">>)),
        !["Department"] = IF capital THEN put("user_department", StrV(<<"CSE">>)) ELSE Absent,
        !["Year"] = IF capital THEN put("user_year", StrV(<<"2">>)) ELSE Absent,
        !["Semester"] = IF capital THEN put("user_semester", StrV(<<"4">>)) ELSE Absent,
        !["model"] = put("model", StrV(<<"m1">>))]

V1FieldSets(ctype) ==
    {V1Fields(omit, ut, q, capital) :
        omit \in Omits, ut \in UserTypeVals(ctype), q \in Questions, capital \in BOOLEAN}

Roles == {"user", "User", "assistant"}
Contents == {<<>>, <<"hi">>, <<" ", "yo", " ">>}
Msgs == [role : Roles, content : Contents]
MsgLists == UNION {[1..n -> Msgs] : n \in 0..MaxMsgs}

\* the v2 fields: messages in a JSON body, in a form field, or the
\* role / content convenience fields
V2JsonFieldSets ==
    {[NoFields EXCEPT !["messages"] = v] :
        v \in {Absent, BadListV, IntV(5), StrV(<<"x">>)} \cup {ListV(m) : m \in MsgLists}}

V2FormFieldSets ==
    {[NoFields EXCEPT !["messages"] = v] :
        v \in {StrV(<<"x">>)} \cup {JsonStrV(m) : m \in MsgLists}}
    \cup {[NoFields EXCEPT !["role"] = r, !["content"] = c] :
            r \in {Absent, StrV(<<"user">>), StrV(<<"assistant">>)},
            c \in {Absent} \cup {StrV(t) : t \in Contents}}

\* body: "object" is a well-formed body carrying the fields f, "array" a
\* JSON body that is well formed but not an object, "malformed" a body
\* that is not JSON, "empty" a body of zero bytes
Req(server, method, path, ctype, body, f) ==
    [server |-> server, method |-> method, path |-> path, ctype |-> ctype,
     body |-> body, f |-> f]

PostBodies(path, ctype) ==
    IF ctype = JSON
    THEN {<<b, NoFields>> : b \in {"malformed", "empty", "array"}}
         \cup {<<"object", f>> : f \in IF path = "/api/v1/chat" THEN V1FieldSets(JSON) ELSE V2JsonFieldSets}
    ELSE IF ctype \in FormTypes
    THEN {<<"object", f>> : f \in IF path = "/api/v1/chat" THEN V1FieldSets(ctype) ELSE V2FormFieldSets}
    ELSE {<<"object", NoFields>>}

PostRequests ==
    UNION {{Req(sv, "POST", path, ct, b[1], b[2]) : b \in PostBodies(path, ct)} :
            sv \in Servers, path \in {"/api/v1/chat", "/api/v2/chat"},
            ct \in {JSON, FORM, MULTIPART, PLAIN}}

GetRequests ==
    {Req(sv, "GET", "/api/v1/chat/test", "", "object", f) :
        sv \in Servers, f \in V1FieldSets(FORM)}
    \cup {Req(sv, "GET", "/api/v1/chat/echo", "", "object", [NoFields EXCEPT !["content"] = c]) :
            sv \in Servers, c \in {Absent} \cup {StrV(t) : t \in Contents}}

Requests == PostRequests \cup GetRequests

\* -------------------------------------------------------- configuration
\* The environment variables the handlers read, each set (non-empty) or not.
Configs == [OPENROUTER_API_KEY : BOOLEAN, OPENAI_API_KEY : BOOLEAN,
            QDRANT_URL : BOOLEAN, HUGGINGFACE_API_KEY : BOOLEAN]

\* ------------------------------------------------------------ responses
NoUsage == [input_tokens |-> 0, output_tokens |-> 0, total_tokens |-> 0]
NoMeta == [present |-> FALSE, used_vector |-> FALSE, contexts |-> 0]
Meta(used, n) == [present |-> TRUE, used_vector |-> used, contexts |-> n]

NoResponse ==
    [status |-> 0, kind |-> "none", reply |-> <<>>, usage |-> NoUsage,
     meta |-> NoMeta, detail |-> <<>>]

\* 200 with {reply, usage} (and meta on the stdlib v1 path)
ChatResponse(reply, usage, meta) ==
    [status |-> 200, kind |-> "chat", reply |-> reply, usage |-> usage,
     meta |-> meta, detail |-> <<>>]

\* an error status with {detail}
ErrorResponse(status, detail) ==
    [status |-> status, kind |-> "error", reply |-> <<>>, usage |-> NoUsage,
     meta |-> NoMeta, detail |-> detail]

\* the handler raised and nothing caught it: socketserver closes the
\* connection without writing a response
Dropped ==
    [status |-> 0, kind |-> "dropped", reply |-> <<>>, usage |-> NoUsage,
     meta |-> NoMeta, detail |-> <<>>]

GREETING == Phrase(<<"Hello!", "How", "can", "I", "help", "you?">>)
YouSaid(user_text) == <<"You", " ", "said:", " ">> \o user_text

\* the canonical v1 record handed to the reply generator
NoParsed ==
    [user_type |-> 0, user_id |-> <<>>, session_id |-> <<>>, user_question |-> <<>>,
     user_department |-> <<>>, user_year |-> <<>>, user_semester |-> <<>>,
     model |-> Absent]

\* the network calls of one request, and how many of them failed
NoCalls == [embed |-> 0, search |-> 0, openrouter |-> 0, openai |-> 0, failed |-> 0]

\* ------------------------------------------------- external call outcomes
\* embedding call: a vector comes back, or the call fails
EmbedOutcomes == {"vector", "error"}

\* a retrieval hit is its payload (a null payload has no field)
PayloadNames == {"text", "content", "chunk", "body"}
NoPayload == [f \in PayloadNames |-> Absent]
Hits == {[NoPayload EXCEPT !["text"] = StrV(<<"ctx", " ", "one">>)],
         [NoPayload EXCEPT !["body"] = StrV(<<"bdy">>)],
         [NoPayload EXCEPT !["chunk"] = IntV(7)],
         [NoPayload EXCEPT !["text"] = BadListV],
         NoPayload}
HitLists == UNION {[1..n -> Hits] : n \in 0..MaxHits}

\* vector-index call: a result list comes back, or the call fails
SearchOutcomes == {[ok |-> TRUE, hits |-> h] : h \in HitLists}
                  \cup {[ok |-> FALSE, hits |-> <<>>]}

\* LLM call: a completion comes back, or the call raises e
LlmOutcomes == {[ok |-> TRUE, text |-> t] : t \in {<<"Because", " ", "so.">>, <<" ", "Yes", "\n">>, <<>>}}
               \cup {[ok |-> FALSE, text |-> Phrase(<<"Connection", "error">>)]}

\* ---------------------------------------------------------------- state
VARIABLES
    cfg,          \* the process environment, fixed at start
    pc,           \* where the handler of the request in flight stands
    req,          \* the request in flight
    entered,      \* the v1 reply generator has been called for the request
    parsed,       \* the canonical v1 record built from the request
    messages,     \* the message list a v2 handler iterates over
    vecs,         \* the result of the embedding step: "none" or "vector"
    contexts,     \* the context snippets retrieved so far
    used_vector,  \* the stdlib handler's used_vector flag
    stages,       \* the responder stages run for this request, in order
    calls,        \* the network calls issued for this request
    resp,         \* the response written to the client
    hits,      \* SpecHits: the hit list handed to the snippet extraction
    hs            \* SpecC: the local state of each concurrent handler

vars == <<cfg, pc, req, entered, parsed, messages, vecs, contexts, used_vector, stages, calls,
          resp, hits, hs>>

NoRequest == Req("", "", "", "", "", NoFields)

Init ==
    /\ cfg \in Configs
    /\ pc = "idle"
    /\ req = NoRequest
    /\ entered = FALSE
    /\ parsed = NoParsed
    /\ messages = <<>>
    /\ vecs = "none"
    /\ contexts = <<>>
    /\ used_vector = FALSE
    /\ stages = <<>>
    /\ calls = NoCalls
    /\ resp = NoResponse
    /\ hits = <<>>
    /\ hs = <<>>

\* a request arrives and is dispatched to its handler
Receive ==
    /\ pc = "idle"
    /\ \E r \in Requests : req' = r
    /\ pc' = "recv"
    /\ UNCHANGED <<cfg, hits, hs, entered, parsed, messages, vecs, contexts, used_vector, stages, calls, resp>>

\* the handler ends with the response r
Reply(r) ==
    /\ resp' = r
    /\ pc' = "done"

\* the response is on the wire and the handler's locals are gone; the
\* server waits for the next request
Finish ==
    /\ pc = "done"
    /\ pc' = "idle"
    /\ req' = NoRequest
    /\ entered' = FALSE
    /\ parsed' = NoParsed
    /\ messages' = <<>>
    /\ vecs' = "none"
    /\ contexts' = <<>>
    /\ used_vector' = FALSE
    /\ stages' = <<>>
    /\ calls' = NoCalls
    /\ resp' = NoResponse
    /\ UNCHANGED <<cfg, hits, hs>>

\* ------------------------------------------- the echo reply (both servers)
Lower(role) == IF role = "User" THEN "user" ELSE role

Max(S) == CHOOSE x \in S : \A y \in S : y <= x

\* the first user message instead of the last
LastUser_First(msgs) ==
    LET I == {i \in 1..Len(msgs) : Lower(msgs[i].role) = "user"} IN
    IF I = {} THEN 0 ELSE CHOOSE x \in I : \A y \in I : x <= y

\* next((m for m in reversed(messages) if m.role.lower() == "user"), None):
\* the index of that message, 0 for None
LastUser(msgs) ==
    LET I == {i \in 1..Len(msgs) : Lower(msgs[i].role) = "user"} IN
    IF I = {} THEN 0 ELSE Max(I)

\* only the user messages are joined
JoinContents_UserOnly(msgs) ==
    LET users == SelectSeq(msgs, LAMBDA m : Lower(m.role) = "user") IN
    Join([i \in 1..Len(users) |-> users[i].content], <<" ">>)

\* " ".join(m.content for m in messages)
JoinContents(msgs) == Join([i \in 1..Len(msgs) |-> msgs[i].content], <<" ">>)

\* ======================================================= stdlib server
\* _parse_post: the parsed data, or the ValueError it raises
_parse_post(r) ==
    LET ok(isdict, f) == [raised |-> FALSE, detail |-> <<>>, dict |-> isdict, f |-> f]
        err(detail) == [raised |-> TRUE, detail |-> detail, dict |-> FALSE, f |-> NoFields]
    IN  IF r.ctype = JSON
        THEN CASE r.body = "malformed" -> err(Phrase(<<"Invalid", "JSON", "body">>))
               [] r.body = "empty" -> ok(TRUE, NoFields)
               [] r.body = "array" -> ok(FALSE, NoFields)
               [] OTHER -> ok(TRUE, r.f)
        ELSE IF r.ctype = FORM THEN ok(TRUE, r.f)
        ELSE IF r.ctype = MULTIPART THEN ok(TRUE, r.f)
        ELSE err(Phrase(<<"Unsupported", "Media", "Type.", "Use", "application/json",
                          "or", "form-data">>))

InternalServerError == ErrorResponse(500, Phrase(<<"Internal", "Server", "Error">>))

\* the message of the ValueError int() raises
IntErrorText(text) ==
    Phrase(<<"invalid", "literal", "for", "int()", "with", "base", "10:">>)
    \o <<" ", "'">> \o text \o <<"'">>

\* do_POST, path /api/v2/chat: the response, and the list iterated
SlV2Chat(data) ==
    LET raw == Or(data.f["messages"], ListV(<<>>))
        echo(msgs) ==
            LET i == LastUser(msgs)
                user_text == IF i > 0 THEN strip(msgs[i].content) ELSE <<>>
                reply_text == IF user_text # <<>> THEN YouSaid(user_text) ELSE GREETING
                input_tokens == IF msgs # <<>> THEN _word_count(JoinContents(msgs)) ELSE 0
            IN  [resp |-> ChatResponse(reply_text,
                                       [input_tokens |-> input_tokens,
                                        output_tokens |-> _word_count(reply_text),
                                        total_tokens |-> input_tokens + _word_count(reply_text)],
                                       NoMeta),
                 messages |-> msgs]
    IN  CASE raw.k = "str" ->
               [resp |-> ErrorResponse(400, Phrase(<<"Invalid", "'messages';", "expected",
                                                     "JSON", "array">>)),
                messages |-> <<>>]
          [] raw.k \in {"jsonstr", "list"} -> echo(raw.m)
          [] OTHER -> [resp |-> InternalServerError, messages |-> <<>>]

\* do_POST, path /api/v1/chat: the payload, or the ValueError of int()
SlV1Payload(data) ==
    LET f == data.f
        ut == int(Str(Or(f["user_type"], StrV(<<"0">>))))
        text(v) == Str(Or(v, StrV(<<>>)))
    IN  [ok |-> ut.ok,
         detail |-> IF ut.ok THEN <<>> ELSE IntErrorText(Str(Or(f["user_type"], StrV(<<"0">>)))),
         payload |->
            [user_type |-> ut.value,
             user_id |-> text(f["user_id"]),
             session_id |-> text(f["session_id"]),
             user_question |-> text(f["user_question"]),
             user_department |-> text(Or(f["Department"], f["user_department"])),
             user_year |-> text(Or(f["Year"], f["user_year"])),
             user_semester |-> text(Or(f["Semester"], f["user_semester"])),
             model |-> IF f["model"].k = "absent" \/ f["model"] = StrV(<<>>)
                       THEN Absent ELSE f["model"]]]

\* do_POST: the response that ends the request, or the payload handed to
\* _generate_v1_reply
SlPost(r) ==
    LET data == _parse_post(r)
        end(response, msgs) ==
            [enter |-> FALSE, resp |-> response, parsed |-> NoParsed, messages |-> msgs]
    IN  IF data.raised THEN end(ErrorResponse(400, data.detail), <<>>)
        ELSE IF ~data.dict THEN end(InternalServerError, <<>>)
        ELSE IF r.path = "/api/v2/chat"
        THEN end(SlV2Chat(data).resp, SlV2Chat(data).messages)
        ELSE LET p == SlV1Payload(data) IN
             IF p.ok
             THEN [enter |-> TRUE, resp |-> NoResponse, parsed |-> p.payload, messages |-> <<>>]
             ELSE end(ErrorResponse(400, p.detail), <<>>)

\* do_POST up to the call of _generate_v1_reply
SlDoPost ==
    /\ pc = "recv" /\ req.server = "stdlib" /\ req.method = "POST"
    /\ LET o == SlPost(req) IN
        /\ resp' = o.resp
        /\ parsed' = o.parsed
        /\ messages' = o.messages
        /\ entered' = o.enter
        /\ pc' = IF o.enter THEN "sl_embed" ELSE "done"
    /\ UNCHANGED <<cfg, hits, hs, req, vecs, contexts, used_vector, stages, calls>>

\* parse_qs(parsed.query): blank values are dropped
ParseQs(f) == [n \in FieldNames |-> IF f[n] = StrV(<<>>) THEN Absent ELSE f[n]]

\* the reply of the echo endpoints of the stdlib server
SlEchoResponse(query) ==
    LET content == strip(Str(Or(query["content"], StrV(<<>>))))
        reply_text == IF content # <<>> THEN YouSaid(content) ELSE GREETING
    IN  ChatResponse(reply_text,
                     [input_tokens |-> _word_count(content),
                      output_tokens |-> _word_count(reply_text),
                      total_tokens |-> _word_count(content) + _word_count(reply_text)],
                     NoMeta)

\* do_GET, path /api/v1/chat/test: the payload, or the ValueError of int()
SlTestPayload(query) ==
    LET q(name) == Str(Or(query[name], StrV(<<>>)))
        ut == int(Str(Or(query["user_type"], StrV(<<"0">>))))
    IN  [ok |-> ut.ok,
         payload |->
            [user_type |-> ut.value,
             user_id |-> q("user_id"),
             session_id |-> q("session_id"),
             user_question |-> q("user_question"),
             user_department |-> Str(Or(query["Department"], Or(query["user_department"], StrV(<<>>)))),
             user_year |-> Str(Or(query["Year"], Or(query["user_year"], StrV(<<>>)))),
             user_semester |-> Str(Or(query["Semester"], Or(query["user_semester"], StrV(<<>>)))),
             model |-> query["model"]]]

\* do_GET; nothing catches what it raises
SlDoGet ==
    /\ pc = "recv" /\ req.server = "stdlib" /\ req.method = "GET"
    /\ LET query == ParseQs(req.f) IN
        IF req.path = "/api/v1/chat/echo"
        THEN Reply(SlEchoResponse(query)) /\ UNCHANGED parsed
        ELSE LET p == SlTestPayload(query) IN
             IF p.ok
             THEN /\ parsed' = p.payload
                  /\ pc' = "sl_embed"
                  /\ UNCHANGED resp
             ELSE Reply(Dropped) /\ UNCHANGED parsed
    /\ entered' = (pc' # "done")
    /\ UNCHANGED <<cfg, hits, hs, req, messages, vecs, contexts, used_vector, stages, calls>>

\* _generate_v1_reply, the embedding step: _hf_embed posts the question
\* to the inference endpoint, with or without a token
SlEmbed ==
    /\ pc = "sl_embed"
    /\ IF parsed.user_type = 0 /\ parsed.user_question # <<>>
       THEN \E out \in EmbedOutcomes :
                /\ calls' = [calls EXCEPT !.embed = @ + 1,
                                          !.failed = IF out = "vector" THEN @ ELSE @ + 1]
                /\ vecs' = IF out = "vector" THEN "vector" ELSE "none"
                /\ pc' = IF out = "vector" THEN "sl_search" ELSE "sl_reply"
       ELSE /\ pc' = "sl_reply"
            /\ UNCHANGED <<calls, vecs>>
    /\ UNCHANGED <<cfg, hits, hs, entered, req, parsed, messages, contexts, used_vector, stages, resp>>

\* payload.get('text') or payload.get('content') or payload.get('chunk')
\* or payload.get('body')
SlSnippet(payload) ==
    Or(payload["text"], Or(payload["content"], Or(payload["chunk"], payload["body"])))

\* _qdrant_contexts_from_results
RECURSIVE _qdrant_contexts_from_results(_)
_qdrant_contexts_from_results(results) ==
    IF Len(results) = 0 THEN <<>>
    ELSE LET text == SlSnippet(results[1]) IN
         (IF text.k \in {"str", "int"} THEN <<Str(text)>> ELSE <<>>)
         \o _qdrant_contexts_from_results(Tail(results))

\* the retrieval step with the QDRANT_URL test of _qdrant_search_vec left out
SlSearch_NoUrlTest ==
    /\ pc = "sl_search"
    /\ used_vector' = TRUE
    /\ \E out \in SearchOutcomes :
            /\ calls' = [calls EXCEPT !.search = @ + 1,
                                      !.failed = IF out.ok THEN @ ELSE @ + 1]
            /\ contexts' = _qdrant_contexts_from_results(IF out.ok THEN out.hits ELSE <<>>)
    /\ pc' = "sl_reply"
    /\ UNCHANGED <<cfg, hits, hs, entered, req, parsed, messages, vecs, stages, resp>>

\* _generate_v1_reply, the retrieval step: used_vector is set, then
\* _qdrant_search_vec returns [] without a call when QDRANT_URL is unset
SlSearch ==
    /\ pc = "sl_search"
    /\ used_vector' = TRUE
    /\ IF ~cfg.QDRANT_URL
       THEN contexts' = <<>> /\ UNCHANGED calls
       ELSE \E out \in SearchOutcomes :
                /\ calls' = [calls EXCEPT !.search = @ + 1,
                                          !.failed = IF out.ok THEN @ ELSE @ + 1]
                /\ contexts' = _qdrant_contexts_from_results(IF out.ok THEN out.hits ELSE <<>>)
    /\ pc' = "sl_reply"
    /\ UNCHANGED <<cfg, hits, hs, entered, req, parsed, messages, vecs, stages, resp>>

\* _generate_v1_reply: prompt_context
SlPromptContext(r) ==
    <<"user_type:", " ">> \o IntStr(r.user_type) \o <<"\n">>
    \o <<"user_id:", " ">> \o r.user_id \o <<"\n">>
    \o <<"session_id:", " ">> \o r.session_id \o <<"\n">>
    \o <<"Department:", " ">> \o r.user_department \o <<"\n">>
    \o <<"Year:", " ">> \o r.user_year \o <<"\n">>
    \o <<"Semester:", " ">> \o r.user_semester \o <<"\n", "\n">>
    \o <<"Question:", " ">> \o r.user_question \o <<"\n">>

\* _generate_v1_reply, from prompt_context to the returned dict
SlV1Response(r, ctxs, used) ==
    LET dept == r.user_department
        year == r.user_year
        sem == r.user_semester
        prompt_context == SlPromptContext(r)
        based(prefix) ==
            prefix \o Phrase(<<"Based", "on", "your", "context">>)
            \o <<" ", "(Department=">> \o dept \o <<",", " ", "Year=">> \o year
            \o <<",", " ", "Semester=">> \o sem \o <<"),", " ">>
            \o Phrase(<<"here's", "a", "helpful", "response", "to", "your", "question:">>)
            \o <<" ">> \o r.user_question
        reply_parts ==
            (IF ctxs # <<>>
             THEN << <<"Relevant", " ", "information:", "\n">> \o Join(ctxs, <<"\n", "---", "\n">>) >>
             ELSE <<>>)
            \o << based(<<"Response:", " ">>) >>
        reply_text == IF reply_parts # <<>> THEN Join(reply_parts, <<"\n", "\n">>)
                      ELSE based(<<"[Local]", " ">>)
        tokens_in == _word_count(prompt_context)
                     + (IF ctxs # <<>> THEN _word_count(Join(ctxs, <<" ">>)) ELSE 0)
        tokens_out == _word_count(reply_text)
    IN  ChatResponse(reply_text,
                     [input_tokens |-> tokens_in, output_tokens |-> tokens_out,
                      total_tokens |-> tokens_in + tokens_out],
                     Meta(used, Len(ctxs)))

SlReply ==
    /\ pc = "sl_reply"
    /\ Reply(SlV1Response(parsed, contexts, used_vector))
    /\ UNCHANGED <<cfg, hits, hs, entered, req, parsed, messages, vecs, contexts, used_vector, stages, calls>>

\* ==================================================== framework server
\* an exception leaves the route function: the framework answers 500
Unhandled == ErrorResponse(500, Phrase(<<"Internal", "Server", "Error">>))

UNSUPPORTED_V1 == Phrase(<<"Unsupported", "Media", "Type.", "Use", "application/json",
                           "or", "form-data">>)
UNSUPPORTED_V2 == UNSUPPORTED_V1 \o <<" ">> \o Phrase(<<"with", "'messages'">>)
INVALID_V1 == Phrase(<<"Invalid", "body.", "Expected", "v1", "fields">>)
INVALID_V2 == Phrase(<<"Invalid", "body.", "Expected", "{", "messages:", "[{", "role,",
                       "content", "}]", "}">>)
INVALID_FORM_MESSAGES == Phrase(<<"Invalid", "'messages'", "in", "form;", "expected",
                                  "JSON", "string">>)

\* ChatV1Request: user_type is an int (a numeric string is accepted), the
\* seven string fields are required, model is optional
ChatV1Request(data) ==
    LET ut == data["user_type"]
        utOk == ut.k = "int" \/ (ut.k = "str" /\ int(ut.s).ok)
        strOk(name) == data[name].k = "str"
        names == {"user_id", "session_id", "user_question", "user_department",
                  "user_year", "user_semester"}
    IN  [ok |-> utOk /\ (\A n \in names : strOk(n)) /\ data["model"].k \in {"absent", "str"},
         parsed |->
            [user_type |-> IF ut.k = "int" THEN ut.n ELSE int(ut.s).value,
             user_id |-> data["user_id"].s,
             session_id |-> data["session_id"].s,
             user_question |-> data["user_question"].s,
             user_department |-> data["user_department"].s,
             user_year |-> data["user_year"].s,
             user_semester |-> data["user_semester"].s,
             model |-> data["model"]]]

\* chat() of api/v1/chat.py, the form branch: the dict built from the form
FwV1FormData(form) ==
    LET get(name) == StrV(Str(Or(form[name], StrV(<<>>))))
        raw == form["user_type"]
        blank == strip(Str(Or(raw, StrV(<<>>)))) = <<>>
        ut == IF raw.k = "absent" THEN [ok |-> TRUE, value |-> 0] ELSE int(Str(raw))
    IN  [raised |-> ~blank /\ ~ut.ok,
         data |-> [NoFields EXCEPT
                    !["user_type"] = IntV(IF blank THEN 0 ELSE ut.value),
                    !["user_id"] = get("user_id"),
                    !["session_id"] = get("session_id"),
                    !["user_question"] = get("user_question"),
                    !["user_department"] = get("user_department"),
                    !["user_year"] = get("user_year"),
                    !["user_semester"] = get("user_semester")]]

\* chat() of api/v1/chat.py: the response that ends the request, or the
\* ChatV1Request handed to generate_v1_llm_reply
FwV1(r) ==
    LET end(response) == [enter |-> FALSE, resp |-> response, parsed |-> NoParsed]
        validate(data) ==
            IF ChatV1Request(data).ok
            THEN [enter |-> TRUE, resp |-> NoResponse, parsed |-> ChatV1Request(data).parsed]
            ELSE end(ErrorResponse(400, INVALID_V1))
    IN  IF r.ctype = JSON
        THEN CASE r.body \in {"malformed", "empty"} -> end(Unhandled)
               [] r.body = "array" -> end(ErrorResponse(400, INVALID_V1))
               [] OTHER -> validate(r.f)
        ELSE IF r.ctype \in FormTypes
        THEN IF FwV1FormData(r.f).raised
             THEN end(Unhandled)
             ELSE validate(FwV1FormData(r.f).data)
        ELSE end(ErrorResponse(415, UNSUPPORTED_V1))

\* chat() of api/v1/chat.py up to the call of generate_v1_llm_reply
FwV1Chat ==
    /\ pc = "recv" /\ req.server = "framework" /\ req.method = "POST"
    /\ req.path = "/api/v1/chat"
    /\ LET o == FwV1(req) IN
        /\ resp' = o.resp
        /\ parsed' = o.parsed
        /\ entered' = o.enter
        /\ pc' = IF o.enter THEN "fw_search" ELSE "done"
    /\ UNCHANGED <<cfg, hits, hs, req, messages, vecs, contexts, used_vector, stages, calls>>

\* chat_test(): the query parameters are validated against the signature,
\* a user_type that is not an integer is answered 422
FwChatTest ==
    /\ pc = "recv" /\ req.server = "framework" /\ req.method = "GET"
    /\ req.path = "/api/v1/chat/test"
    /\ LET q(name) == Str(Or(req.f[name], StrV(<<>>)))
           raw == req.f["user_type"]
           ut == IF raw.k = "absent" THEN [ok |-> TRUE, value |-> 0] ELSE int(Str(raw))
       IN  IF ut.ok
           THEN /\ parsed' = [user_type |-> ut.value,
                              user_id |-> q("user_id"),
                              session_id |-> q("session_id"),
                              user_question |-> q("user_question"),
                              user_department |-> q("user_department"),
                              user_year |-> q("user_year"),
                              user_semester |-> q("user_semester"),
                              model |-> req.f["model"]]
                /\ pc' = "fw_search"
                /\ UNCHANGED resp
           ELSE /\ Reply(ErrorResponse(422, Phrase(<<"Input", "should", "be", "a", "valid",
                                                     "integer">>)))
                /\ UNCHANGED parsed
    /\ entered' = (pc' # "done")
    /\ UNCHANGED <<cfg, hits, hs, req, messages, vecs, contexts, used_vector, stages, calls>>

\* chat_echo()
FwChatEcho ==
    /\ pc = "recv" /\ req.server = "framework" /\ req.method = "GET"
    /\ req.path = "/api/v1/chat/echo"
    /\ LET user_text == strip(Str(Or(req.f["content"], StrV(<<>>))))
           reply_text == IF user_text # <<>> THEN YouSaid(user_text) ELSE GREETING
       IN  Reply(ChatResponse(reply_text,
                              [input_tokens |-> SplitLen(user_text),
                               output_tokens |-> SplitLen(reply_text),
                               total_tokens |-> SplitLen(user_text) + SplitLen(reply_text)],
                              NoMeta))
    /\ UNCHANGED <<cfg, hits, hs, entered, req, parsed, messages, vecs, contexts, used_vector, stages, calls>>

\* the role of a form field, as a message role
RoleOf(text) == IF Len(strip(text)) = 1 THEN strip(text)[1] ELSE ""

\* chat() of main.py from model_validate on: the echo reply and its usage
generate_reply(msgs) ==
    LET i == LastUser(msgs)
        user_text == IF i > 0 /\ msgs[i].content # <<>> THEN strip(msgs[i].content) ELSE <<>>
        reply_text == IF user_text # <<>> THEN YouSaid(user_text) ELSE GREETING
        input_tokens == IF msgs # <<>> THEN SplitLen(JoinContents(msgs)) ELSE 0
        output_tokens == SplitLen(reply_text)
    IN  ChatResponse(reply_text,
                     [input_tokens |-> input_tokens, output_tokens |-> output_tokens,
                      total_tokens |-> input_tokens + output_tokens],
                     NoMeta)

\* chat() of main.py up to model_validate: the message list, or the
\* response that ends the request
FwV2Data(r) ==
    LET ok(msgs) == [ok |-> TRUE, messages |-> msgs, resp |-> NoResponse]
        err(response) == [ok |-> FALSE, messages |-> <<>>, resp |-> response]
        m == r.f["messages"]
    IN  IF r.ctype = JSON
        THEN CASE r.body \in {"malformed", "empty"} -> err(Unhandled)
               [] r.body = "array" -> err(ErrorResponse(400, INVALID_V2))
               [] m.k = "absent" -> ok(<<>>)
               [] m.k = "list" -> ok(m.m)
               [] OTHER -> err(ErrorResponse(400, INVALID_V2))
        ELSE IF r.ctype \in FormTypes
        THEN CASE m.k = "jsonstr" -> ok(m.m)
               [] m.k # "absent" -> err(ErrorResponse(400, INVALID_FORM_MESSAGES))
               [] OTHER ->
                    ok(<< [role |-> RoleOf(Str(Or(r.f["role"], StrV(<<"user">>)))),
                           content |-> strip(Str(Or(r.f["content"], StrV(<<>>))))] >>)
        ELSE err(ErrorResponse(415, UNSUPPORTED_V2))

\* chat() of main.py: its response
FwV2(r) ==
    IF FwV2Data(r).ok THEN generate_reply(FwV2Data(r).messages) ELSE FwV2Data(r).resp

FwV2Chat ==
    /\ pc = "recv" /\ req.server = "framework" /\ req.method = "POST"
    /\ req.path = "/api/v2/chat"
    /\ Reply(FwV2(req))
    /\ messages' = FwV2Data(req).messages
    /\ UNCHANGED <<cfg, hits, hs, entered, req, parsed, vecs, contexts, used_vector, stages, calls>>

\* _embed_texts: no call is made without OPENAI_API_KEY or OPENROUTER_API_KEY
EmbedKey(c) == c.OPENAI_API_KEY \/ c.OPENROUTER_API_KEY

\* payload.get("text") or payload.get("content") or payload.get("chunk")
FwSnippet(payload) == Or(payload["text"], Or(payload["content"], payload["chunk"]))

\* _qdrant_search, the loop over the hits
RECURSIVE FwContexts(_)
FwContexts(res) ==
    IF Len(res) = 0 THEN <<>>
    ELSE LET text == FwSnippet(res[1]) IN
         (IF Truthy(text) THEN <<Str(text)>> ELSE <<>>) \o FwContexts(Tail(res))

\* generate_v1_llm_reply, the retrieval step: _qdrant_search embeds the
\* question and queries the index; whatever is raised yields no context
FwQdrantSearch ==
    /\ pc = "fw_search"
    /\ IF parsed.user_type # 0 \/ ~cfg.QDRANT_URL \/ ~EmbedKey(cfg)
       THEN UNCHANGED <<calls, vecs, contexts>>
       ELSE \E eo \in EmbedOutcomes :
                IF eo # "vector"
                THEN /\ calls' = [calls EXCEPT !.embed = @ + 1, !.failed = @ + 1]
                     /\ UNCHANGED <<vecs, contexts>>
                ELSE \E so \in SearchOutcomes :
                        /\ calls' = [calls EXCEPT !.embed = @ + 1, !.search = @ + 1,
                                                  !.failed = IF so.ok THEN @ ELSE @ + 1]
                        /\ vecs' = "vector"
                        /\ contexts' = IF so.ok THEN FwContexts(so.hits) ELSE <<>>
    /\ pc' = "fw_llm"
    /\ UNCHANGED <<cfg, hits, hs, entered, req, parsed, messages, used_vector, stages, resp>>

\* generate_v1_llm_reply: the prompt
Prompt(r, ctxs) ==
    Phrase(<<"You", "are", "a", "helpful", "assistant.", "Use", "the", "provided", "user",
             "context", "to", "answer", "the", "question.">>) \o <<"\n", "\n">>
    \o <<"user_type:", " ">> \o IntStr(r.user_type) \o <<"\n">>
    \o <<"user_id:", " ">> \o r.user_id \o <<"\n">>
    \o <<"session_id:", " ">> \o r.session_id \o <<"\n">>
    \o <<"department:", " ">> \o r.user_department \o <<"\n">>
    \o <<"year:", " ">> \o r.user_year \o <<"\n">>
    \o <<"semester:", " ">> \o r.user_semester \o <<"\n">>
    \o (IF ctxs # <<>>
        THEN <<"\n">> \o Phrase(<<"Relevant", "context", "from", "search:">>) \o <<"\n">>
             \o Join(ctxs, <<"\n", "---", "\n">>) \o <<"\n">>
        ELSE <<"\n">>)
    \o <<"\n", "Question:", " ">> \o r.user_question \o <<"\n">>

\* total_tokens without the output tokens
StageResponse_TotalIn(prompt, reply_text) ==
    ChatResponse(reply_text,
                 [input_tokens |-> SplitLen(prompt), output_tokens |-> SplitLen(reply_text),
                  total_tokens |-> SplitLen(prompt)],
                 NoMeta)

\* ChatResponse(reply=reply_text, usage=Usage(...)) as every stage builds it
StageResponse(prompt, reply_text) ==
    LET tokens_in == SplitLen(prompt)
        tokens_out == SplitLen(reply_text)
    IN  ChatResponse(reply_text,
                     [input_tokens |-> tokens_in, output_tokens |-> tokens_out,
                      total_tokens |-> tokens_in + tokens_out],
                     NoMeta)

\* the OpenRouter stage without its except clause
OpenRouterReply_Raises(r, prompt, out) ==
    IF out.ok THEN StageResponse(prompt, strip(out.text)) ELSE Unhandled

\* the OpenRouter stage: the completion, or the reply that names the error
OpenRouterReply(r, prompt, out) ==
    IF out.ok
    THEN StageResponse(prompt, strip(out.text))
    ELSE StageResponse(prompt,
            <<"[OpenRouter", " ", "error]", " ">> \o out.text \o <<".", " ">>
            \o Phrase(<<"Based", "on", "your", "context,", "here's", "a", "response:">>)
            \o <<" ">> \o r.user_question)

\* the OpenAI stage
OpenAIReply(r, prompt, out) ==
    IF out.ok
    THEN StageResponse(prompt, strip(out.text))
    ELSE StageResponse(prompt,
            <<"[LLM", " ", "error]", " ">> \o out.text \o <<".", " ">>
            \o Phrase(<<"Falling", "back", "to", "local", "response:">>)
            \o <<" ">> \o r.user_question)

\* the local fallback
LocalReply(r, prompt) ==
    StageResponse(prompt,
        <<"[Local]", " ">> \o Phrase(<<"Based", "on", "your", "context">>)
        \o <<" ", "(dept=">> \o r.user_department \o <<",", " ", "year=">> \o r.user_year
        \o <<",", " ", "semester=">> \o r.user_semester \o <<"),", " ">>
        \o Phrase(<<"here's", "a", "helpful", "response", "to", "your", "question:">>)
        \o <<" ">> \o r.user_question)

\* which stage generate_v1_llm_reply enters
OpenRouterStage(c) == c.OPENROUTER_API_KEY
\* the OpenAI stage entered whenever its key is set
OpenAIStage_KeyOnly(c) == c.OPENAI_API_KEY

OpenAIStage(c) == ~c.OPENROUTER_API_KEY /\ c.OPENAI_API_KEY
LocalStage(c) == ~c.OPENROUTER_API_KEY /\ ~c.OPENAI_API_KEY

FwOpenRouter ==
    /\ pc = "fw_llm" /\ OpenRouterStage(cfg)
    /\ \E out \in LlmOutcomes :
        /\ Reply(OpenRouterReply(parsed, Prompt(parsed, contexts), out))
        /\ stages' = Append(stages, IF out.ok THEN "openrouter" ELSE "openrouter_failed")
        /\ calls' = [calls EXCEPT !.openrouter = @ + 1,
                                  !.failed = IF out.ok THEN @ ELSE @ + 1]
    /\ UNCHANGED <<cfg, hits, hs, entered, req, parsed, messages, vecs, contexts, used_vector>>

FwOpenAI ==
    /\ pc = "fw_llm" /\ OpenAIStage(cfg)
    /\ \E out \in LlmOutcomes :
        /\ Reply(OpenAIReply(parsed, Prompt(parsed, contexts), out))
        /\ stages' = Append(stages, IF out.ok THEN "openai" ELSE "openai_failed")
        /\ calls' = [calls EXCEPT !.openai = @ + 1,
                                  !.failed = IF out.ok THEN @ ELSE @ + 1]
    /\ UNCHANGED <<cfg, hits, hs, entered, req, parsed, messages, vecs, contexts, used_vector>>

FwLocal ==
    /\ pc = "fw_llm" /\ LocalStage(cfg)
    /\ Reply(LocalReply(parsed, Prompt(parsed, contexts)))
    /\ stages' = Append(stages, "local")
    /\ UNCHANGED <<cfg, hits, hs, entered, req, parsed, messages, vecs, contexts, used_vector, calls>>

\* ------------------------------------------------------- specification
Next ==
    \/ Receive
    \/ SlDoPost
    \/ SlDoGet
    \/ SlEmbed
    \/ SlSearch
    \/ SlReply
    \/ FwV1Chat
    \/ FwChatTest
    \/ FwChatEcho
    \/ FwV2Chat
    \/ FwQdrantSearch
    \/ FwOpenRouter
    \/ FwOpenAI
    \/ FwLocal
    \/ Finish

Spec == Init /\ [][Next]_vars

TypeOK ==
    /\ cfg \in Configs
    /\ pc \in {"idle", "recv", "sl_embed", "sl_search", "sl_reply", "fw_search", "fw_llm", "done"}
    /\ resp.status \in {0, 200, 400, 415, 422, 500}

\* =============================================================== claims
Done == pc = "done"
NoLlmKey == ~cfg.OPENROUTER_API_KEY /\ ~cfg.OPENAI_API_KEY

\* C1: once the v1 reply generator has been called, whatever the embedding,
\* vector-search and LLM calls do, the request ends with status 200 and a
\* response that carries a reply and a usage record.
C1_FailSoft ==
    (Done /\ entered) => (resp.status = 200 /\ resp.kind = "chat")

\* the embedding call succeeded, the vector search and the LLM call failed
C1_Witness ==
    /\ Done /\ entered
    /\ calls.embed = 1 /\ calls.search = 1 /\ calls.failed = 2
    /\ stages = <<"openrouter_failed">>
    /\ resp.kind = "chat"

\* C2: generate_v1_llm_reply runs exactly one responder stage: OpenRouter
\* iff OPENROUTER_API_KEY is set, OpenAI iff it is not and OPENAI_API_KEY
\* is, the local template iff neither is; at most one LLM call is made and
\* none to OpenAI after a failed OpenRouter call.
C2_OneStage ==
    /\ Len(stages) <= 1
    /\ calls.openrouter + calls.openai <= 1
    /\ (Done /\ entered /\ req.server = "framework") =>
          /\ Len(stages) = 1
          /\ (stages[1] \in {"openrouter", "openrouter_failed"}) <=> cfg.OPENROUTER_API_KEY
          /\ (stages[1] \in {"openai", "openai_failed"})
                <=> (~cfg.OPENROUTER_API_KEY /\ cfg.OPENAI_API_KEY)
          /\ (stages[1] = "local") <=> NoLlmKey
          /\ (stages[1] = "local") => (calls.openrouter = 0 /\ calls.openai = 0)
          /\ (stages[1] = "openrouter_failed") => calls.openai = 0

\* both keys are set and the OpenRouter call failed
C2_Witness ==
    /\ Done /\ cfg.OPENROUTER_API_KEY /\ cfg.OPENAI_API_KEY
    /\ stages = <<"openrouter_failed">>
    /\ calls.openrouter = 1

\* C3: with neither LLM key set, no network call is made while a v1 request
\* is handled, and the reply names the department, year, semester and question.
C3_LocalNoNetwork ==
    NoLlmKey =>
        /\ calls = NoCalls
        /\ (Done /\ entered) =>
              /\ Contains(resp.reply, parsed.user_department)
              /\ Contains(resp.reply, parsed.user_year)
              /\ Contains(resp.reply, parsed.user_semester)
              /\ Contains(resp.reply, parsed.user_question)

\* C4: a v1 response with meta to a request with user_type 0, handled with
\* QDRANT_URL unset, has contexts 0 and used_vector false, and its reply
\* contains the question.
C4_NoIndexMeta ==
    (Done /\ entered /\ resp.meta.present /\ parsed.user_type = 0 /\ ~cfg.QDRANT_URL) =>
        /\ resp.meta.contexts = 0
        /\ resp.meta.used_vector = FALSE
        /\ Contains(resp.reply, parsed.user_question)

\* C5: a POST whose content type is neither JSON nor a form is answered 415
\* and no reply is generated.
C5_Unsupported415 ==
    (Done /\ req.method = "POST" /\ req.ctype \notin ({JSON} \cup FormTypes)) =>
        (resp.status = 415 /\ ~entered /\ resp.kind # "chat")

\* C6: a POST declaring application/json whose body is not JSON is answered
\* 400 with a detail message.
C6_MalformedJson400 ==
    (Done /\ req.method = "POST" /\ req.ctype = JSON /\ req.body = "malformed") =>
        (resp.status = 400 /\ resp.detail # <<>>)

\* a v1 user_type that is not an integer, or a v2 messages value that is
\* not a list of message objects
InvalidFieldType(r) ==
    /\ r.body = "object"
    /\ \/ /\ r.path \in {"/api/v1/chat", "/api/v1/chat/test"}
          /\ r.f["user_type"].k = "str"
          /\ strip(r.f["user_type"].s) # <<>>
          /\ ~int(r.f["user_type"].s).ok
       \/ /\ r.path = "/api/v2/chat"
          /\ r.f["messages"].k \in {"int", "badlist", "str"}

\* C7: a request with an invalid field type is answered with a 4xx status
\* and a detail string.
C7_InvalidField4xx ==
    (Done /\ req.method \in {"GET", "POST"} /\ (req.method = "POST" => req.ctype \in ({JSON} \cup FormTypes))
          /\ InvalidFieldType(req)) =>
        (resp.status \in 400..499 /\ resp.detail # <<>>)

\* C8: a POST /api/v1/chat in a supported content type that leaves fields
\* out is processed: status 200, a missing or empty user_type is 0 and a
\* missing string field is the empty string.
C8_OptionalFields ==
    (/\ Done /\ req.method = "POST" /\ req.path = "/api/v1/chat"
     /\ req.ctype \in ({JSON} \cup FormTypes) /\ req.body = "object"
     /\ ~InvalidFieldType(req)) =>
        /\ resp.status = 200 /\ resp.kind = "chat"
        /\ ~Truthy(req.f["user_type"]) => parsed.user_type = 0
        /\ \A n \in {"user_id", "session_id", "user_question"} :
                req.f[n].k = "absent" => parsed[n] = <<>>
        /\ (req.f["user_department"].k = "absent" /\ req.f["Department"].k = "absent")
                => parsed.user_department = <<>>

\* C9: the usage of every response that carries one has non-negative
\* input_tokens and output_tokens, and total_tokens is their sum.
C9_UsageSum ==
    resp.kind = "chat" =>
        /\ resp.usage.input_tokens \in Nat
        /\ resp.usage.output_tokens \in Nat
        /\ resp.usage.total_tokens = resp.usage.input_tokens + resp.usage.output_tokens

\* the usage of the fallback reply after a failed OpenAI call
C9_Witness ==
    /\ Done /\ stages = <<"openai_failed">>
    /\ resp.usage.input_tokens > 0 /\ resp.usage.output_tokens > 0
    /\ contexts # <<>>

V2Answered == Done /\ req.method = "POST" /\ req.path = "/api/v2/chat" /\ resp.status = 200

IsUser(m) == Lower(m.role) = "user"

\* C10 as stated: the reply is "You said: " followed by the content of the
\* last user message, and the greeting when there is no user message.
C10_EchoContent ==
    V2Answered =>
        /\ \A i \in 1..Len(messages) :
                (IsUser(messages[i]) /\ \A j \in (i + 1)..Len(messages) : ~IsUser(messages[j]))
                    => resp.reply = YouSaid(messages[i].content)
        /\ (\A i \in 1..Len(messages) : ~IsUser(messages[i])) => resp.reply = GREETING

\* C10 amended: the reply is "You said: " followed by the content, stripped
\* of surrounding whitespace, of the last message whose role is user in any
\* letter case, when that stripped content is not empty; it is the greeting
\* when it is empty or there is no such message.
C10_EchoStripped ==
    V2Answered =>
        /\ \A i \in 1..Len(messages) :
                (IsUser(messages[i]) /\ \A j \in (i + 1)..Len(messages) : ~IsUser(messages[j]))
                    => resp.reply = IF strip(messages[i].content) # <<>>
                                    THEN YouSaid(strip(messages[i].content))
                                    ELSE GREETING
        /\ (\A i \in 1..Len(messages) : ~IsUser(messages[i])) => resp.reply = GREETING

\* two user messages with different contents: the later one is echoed
C10_Witness ==
    /\ V2Answered
    /\ Len(messages) = 2
    /\ IsUser(messages[1]) /\ messages[1].content = <<"hi">>
    /\ IsUser(messages[2]) /\ messages[2].content = <<" ", "yo", " ">>
    /\ resp.reply = <<"You", " ", "said:", " ", "yo">>

\* the number of whitespace-delimited words of a text
Words(s) == Cardinality({i \in 1..Len(s) : ~IsSpace(s[i]) /\ (i = Len(s) \/ IsSpace(s[i + 1]))})

\* the contents of the messages, in order, separated by single spaces
RECURSIVE Concat(_)
Concat(msgs) ==
    IF msgs = <<>> THEN <<>>
    ELSE IF Len(msgs) = 1 THEN msgs[1].content
    ELSE msgs[1].content \o <<" ">> \o Concat(Tail(msgs))

V1Framework == Done /\ entered /\ req.server = "framework"
V1Stdlib == Done /\ entered /\ req.server = "stdlib"
EchoAnswered == Done /\ req.path = "/api/v1/chat/echo" /\ resp.status = 200

\* C11 as stated: output_tokens is the word count of the reply; input_tokens
\* is the word count of the assembled prompt on the v1 path and of the
\* concatenated user messages on the echo path.
C11_WordCounts ==
    resp.kind = "chat" =>
        /\ resp.usage.output_tokens = Words(resp.reply)
        /\ V1Framework => resp.usage.input_tokens = Words(Prompt(parsed, contexts))
        /\ V2Answered => resp.usage.input_tokens = Words(Concat(SelectSeq(messages, IsUser)))

\* C11 amended: output_tokens is the word count of the reply; input_tokens
\* is the word count of the assembled prompt on the framework v1 path, of
\* the prompt context plus that of the retrieved snippets on the stdlib v1
\* path, of the contents of all messages (of whatever role) joined by
\* spaces on the v2 chat path, and of the content parameter on the echo
\* endpoints.
C11_WordCountsAllMessages ==
    resp.kind = "chat" =>
        /\ resp.usage.output_tokens = Words(resp.reply)
        /\ V1Framework => resp.usage.input_tokens = Words(Prompt(parsed, contexts))
        /\ V1Stdlib => resp.usage.input_tokens
                          = Words(SlPromptContext(parsed)) + Words(Join(contexts, <<" ">>))
        /\ V2Answered => resp.usage.input_tokens = Words(Concat(messages))
        /\ EchoAnswered => resp.usage.input_tokens = Words(req.f["content"].s)

\* an assistant message and a user message, both counted
C11_Witness ==
    /\ V2Answered
    /\ Len(messages) = 2
    /\ messages[1].role = "assistant" /\ messages[1].content = <<"hi">>
    /\ messages[2].role = "user" /\ messages[2].content = <<" ", "yo", " ">>
    /\ resp.usage.input_tokens = 2 /\ resp.usage.output_tokens = 3

\* two responses agree on status, reply and usage
Same(a, b) == a.status = b.status /\ a.reply = b.reply /\ a.usage = b.usage

\* the response of the other server to the request r when neither LLM key
\* is set and the handler makes no external call
OtherV2(r) == IF r.server = "framework" THEN SlPost(r).resp ELSE FwV2(r)

OtherV1Local(r) ==
    IF r.server = "framework"
    THEN IF SlPost(r).enter THEN SlV1Response(SlPost(r).parsed, <<>>, FALSE) ELSE SlPost(r).resp
    ELSE IF FwV1(r).enter THEN LocalReply(FwV1(r).parsed, Prompt(FwV1(r).parsed, <<>>))
         ELSE FwV1(r).resp

\* the other server makes no external call for r when no LLM key is set
OtherCallsNothing(r) ==
    r.server = "framework" =>
        \/ ~SlPost(r).enter
        \/ SlPost(r).parsed.user_type # 0
        \/ SlPost(r).parsed.user_question = <<>>

\* C12: the two servers answer the same request with the same status, reply
\* and usage: every POST /api/v2/chat, and every POST /api/v1/chat that both
\* servers answer without an external call (no outcome differs between them).
C12_SameResponse ==
    (Done /\ req.method = "POST") =>
        /\ req.path = "/api/v2/chat" => Same(resp, OtherV2(req))
        /\ (req.path = "/api/v1/chat" /\ NoLlmKey /\ calls = NoCalls /\ OtherCallsNothing(req))
              => Same(resp, OtherV1Local(req))

\* the embedding credential each variant reads: OPENAI_API_KEY or
\* OPENROUTER_API_KEY in _embed_texts, HUGGINGFACE_API_KEY in _hf_embed
EmbedCredential == IF req.server = "framework" THEN EmbedKey(cfg) ELSE cfg.HUGGINGFACE_API_KEY

\* C14: without an embedding credential in the configuration, the embedding
\* step of either server attempts no network call.
C14_NoCredentialNoEmbedCall == (req # NoRequest /\ ~EmbedCredential) => calls.embed = 0

\* C15: the vector index is called at most once per request, and only for
\* user_type 0 with QDRANT_URL set and a vector returned by the embedding
\* step of the same request; without a call the context list is empty, and
\* for user_type other than 0 there is no embedding call either.
C15_IndexCallGuarded ==
    /\ calls.search <= 1
    /\ calls.search = 1 =>
            entered /\ parsed.user_type = 0 /\ cfg.QDRANT_URL /\ vecs = "vector"
    /\ calls.search = 0 => contexts = <<>>
    /\ (entered /\ parsed.user_type # 0) => calls.embed = 0 /\ calls.search = 0

\* a request answered with snippets the one index call returned
C15_Witness == Done /\ calls.search = 1 /\ contexts # <<>> /\ parsed.user_type = 0

\* ------------------------------------------- snippet extraction on its own
\* payloads with any of the four fields, holding a string, an empty string,
\* a number, zero or a list
Payloads ==
    {[text |-> t, content |-> c, chunk |-> k, body |-> b] :
        t \in {Absent, StrV(<<"t">>), StrV(<<>>), IntV(7), IntV(0), BadListV},
        c \in {Absent, StrV(<<"c">>)},
        k \in {Absent, IntV(3)},
        b \in {Absent, StrV(<<"b">>)}}

ResultLists == UNION {[1..n -> Payloads] : n \in 0..MaxHits}

InitHits ==
    /\ cfg = [OPENROUTER_API_KEY |-> FALSE, OPENAI_API_KEY |-> FALSE,
              QDRANT_URL |-> TRUE, HUGGINGFACE_API_KEY |-> FALSE]
    /\ pc = "hits"
    /\ req = NoRequest
    /\ entered = FALSE
    /\ parsed = NoParsed
    /\ messages = <<>>
    /\ vecs = "vector"
    /\ contexts = <<>>
    /\ used_vector = FALSE
    /\ stages = <<>>
    /\ calls = NoCalls
    /\ resp = NoResponse
    /\ hits \in ResultLists
    /\ hs = <<>>

\* contexts = _qdrant_contexts_from_results(results) in _generate_v1_reply
SlExtract ==
    /\ pc = "hits"
    /\ contexts' = _qdrant_contexts_from_results(hits)
    /\ pc' = "sl_hits"
    /\ UNCHANGED <<cfg, hits, hs, entered, req, parsed, messages, vecs, used_vector, stages,
                   calls, resp>>

\* the loop of _qdrant_search over the hits client.search returned
FwExtract ==
    /\ pc = "hits"
    /\ contexts' = FwContexts(hits)
    /\ pc' = "fw_hits"
    /\ UNCHANGED <<cfg, hits, hs, entered, req, parsed, messages, vecs, used_vector, stages,
                   calls, resp>>

NextHits == SlExtract \/ FwExtract

SpecHits == InitHits /\ [][NextHits]_vars

\* the value of the first field the payload has, in the order text, content,
\* chunk, body
FirstPresent(payload) ==
    IF payload["text"] # Absent THEN payload["text"]
    ELSE IF payload["content"] # Absent THEN payload["content"]
    ELSE IF payload["chunk"] # Absent THEN payload["chunk"]
    ELSE payload["body"]

\* one snippet per hit: a string as it is, a number stringified, nothing for
\* any other value or for a payload with none of the fields
RECURSIVE SnippetPerHit(_)
SnippetPerHit(res) ==
    IF Len(res) = 0 THEN <<>>
    ELSE LET v == FirstPresent(res[1]) IN
         (CASE v.k = "str" -> <<v.s>>
            [] v.k = "int" -> <<IntStr(v.n)>>
            [] OTHER -> <<>>)
         \o SnippetPerHit(Tail(res))

\* C16: for every hit list, the context list either server extracts holds, in
\* hit order, the snippet of each hit taken from its first present field in
\* the order text, content, chunk, body: a string as is, a number
\* stringified, nothing for any other value.
C16_SnippetPerHit ==
    pc \in {"sl_hits", "fw_hits"} => contexts = SnippetPerHit(hits)

\* ------------------------------------------- concurrently handled requests
\* ThreadingHTTPServer runs one ApiHandler per request in its own thread, and
\* the framework runs one call of the route function per request: each has
\* its own locals, and all read the same process environment.
Handlers == {1, 2}

\* the outcomes one request has observed of its own external calls
NoSearch == [ok |-> FALSE, hits |-> <<>>]
NoLlm == [ok |-> FALSE, text |-> <<>>]
NoOuts == [embed |-> "none", search |-> NoSearch, llm |-> NoLlm, called |-> 0]

NoHandler ==
    [pc |-> "idle", server |-> "", parsed |-> NoParsed, vecs |-> "none", contexts |-> <<>>,
     used_vector |-> FALSE, outs |-> NoOuts, resp |-> NoResponse]

\* validated v1 requests as the reply generators receive them
V1Calls ==
    {[server |-> s,
      parsed |-> [NoParsed EXCEPT !.user_type = t, !.user_question = q,
                                  !.user_department = <<"CSE">>]] :
        s \in Servers, t \in {0, 1}, q \in {<<"why">>, <<"how">>}}

SearchResults ==
    {[ok |-> TRUE, hits |-> h] :
        h \in {<<>>, <<[NoPayload EXCEPT !["text"] = StrV(<<"ctx", " ", "one">>)]>>,
                <<[NoPayload EXCEPT !["chunk"] = IntV(7)]>>}}
    \cup {NoSearch}

\* the variables of the one-request specification
single == <<pc, req, entered, parsed, messages, vecs, contexts, used_vector, stages, calls, resp>>

InitC ==
    /\ cfg \in Configs
    /\ pc = "idle"
    /\ req = NoRequest
    /\ entered = FALSE
    /\ parsed = NoParsed
    /\ messages = <<>>
    /\ vecs = "none"
    /\ contexts = <<>>
    /\ used_vector = FALSE
    /\ stages = <<>>
    /\ calls = NoCalls
    /\ resp = NoResponse
    /\ hits = <<>>
    /\ hs = [i \in Handlers |-> NoHandler]

\* handler i takes the step that turns its locals into l
Step(i, l) == hs' = [hs EXCEPT ![i] = l] /\ UNCHANGED <<cfg, hits, single>>

\* the context list in one variable all handlers write and read
OwnContexts_Shared(h, i) == h[1].contexts

\* contexts is a local of _generate_v1_reply and of generate_v1_llm_reply
OwnContexts(h, i) == h[i].contexts

\* a reply generator is called with a request
Call(i) ==
    /\ hs[i].pc = "idle"
    /\ \E r \in V1Calls :
        Step(i, [hs[i] EXCEPT !.server = r.server, !.parsed = r.parsed,
                              !.pc = IF r.server = "stdlib" THEN "sl_embed" ELSE "fw_search"])

\* _generate_v1_reply: the embedding step
EmbedC(i) ==
    /\ hs[i].pc = "sl_embed"
    /\ IF hs[i].parsed.user_type = 0 /\ hs[i].parsed.user_question # <<>>
       THEN \E out \in EmbedOutcomes :
                Step(i, [hs[i] EXCEPT !.outs.embed = out, !.outs.called = @ + 1,
                                      !.vecs = IF out = "vector" THEN "vector" ELSE "none",
                                      !.pc = IF out = "vector" THEN "sl_search" ELSE "sl_reply"])
       ELSE Step(i, [hs[i] EXCEPT !.pc = "sl_reply"])

\* _generate_v1_reply: the retrieval step
SearchC(i) ==
    /\ hs[i].pc = "sl_search"
    /\ IF ~cfg.QDRANT_URL
       THEN Step(i, [hs[i] EXCEPT !.used_vector = TRUE, !.contexts = <<>>, !.pc = "sl_reply"])
       ELSE \E out \in SearchResults :
                Step(i, [hs[i] EXCEPT !.used_vector = TRUE,
                                      !.outs.search = out, !.outs.called = @ + 1,
                                      !.contexts = _qdrant_contexts_from_results(out.hits),
                                      !.pc = "sl_reply"])

\* _generate_v1_reply: the reply
ReplyC(i) ==
    /\ hs[i].pc = "sl_reply"
    /\ Step(i, [hs[i] EXCEPT
                  !.resp = SlV1Response(hs[i].parsed, OwnContexts(hs, i), hs[i].used_vector),
                  !.pc = "done"])

\* generate_v1_llm_reply: the retrieval step
QdrantSearchC(i) ==
    /\ hs[i].pc = "fw_search"
    /\ IF hs[i].parsed.user_type # 0 \/ ~cfg.QDRANT_URL \/ ~EmbedKey(cfg)
       THEN Step(i, [hs[i] EXCEPT !.pc = "fw_llm"])
       ELSE \E eo \in EmbedOutcomes :
                IF eo # "vector"
                THEN Step(i, [hs[i] EXCEPT !.outs.embed = eo, !.outs.called = @ + 1,
                                           !.pc = "fw_llm"])
                ELSE \E so \in SearchResults :
                        Step(i, [hs[i] EXCEPT !.outs.embed = eo, !.outs.search = so,
                                              !.outs.called = @ + 2,
                                              !.vecs = "vector",
                                              !.contexts = FwContexts(so.hits),
                                              !.pc = "fw_llm"])

\* generate_v1_llm_reply: the one responder stage the configuration selects
StageC(i) ==
    /\ hs[i].pc = "fw_llm"
    /\ LET prompt == Prompt(hs[i].parsed, OwnContexts(hs, i)) IN
        IF LocalStage(cfg)
        THEN Step(i, [hs[i] EXCEPT !.resp = LocalReply(hs[i].parsed, prompt), !.pc = "done"])
        ELSE \E out \in LlmOutcomes :
                Step(i, [hs[i] EXCEPT
                          !.outs.llm = out, !.outs.called = @ + 1,
                          !.resp = IF OpenRouterStage(cfg)
                                   THEN OpenRouterReply(hs[i].parsed, prompt, out)
                                   ELSE OpenAIReply(hs[i].parsed, prompt, out),
                          !.pc = "done"])

NextC ==
    \E i \in Handlers :
        \/ Call(i)
        \/ EmbedC(i)
        \/ SearchC(i)
        \/ ReplyC(i)
        \/ QdrantSearchC(i)
        \/ StageC(i)

SpecC == InitC /\ [][NextC]_vars

\* the response to the v1 request (server, r) under configuration c when its
\* own external calls have the outcomes o
Answer(c, server, r, o) ==
    IF server = "stdlib"
    THEN LET used == r.user_type = 0 /\ r.user_question # <<>> /\ o.embed = "vector"
             ctxs == IF used /\ c.QDRANT_URL
                     THEN _qdrant_contexts_from_results(o.search.hits) ELSE <<>>
         IN  SlV1Response(r, ctxs, used)
    ELSE LET ctxs == IF r.user_type = 0 /\ c.QDRANT_URL /\ EmbedKey(c) /\ o.embed = "vector"
                     THEN FwContexts(o.search.hits) ELSE <<>>
             prompt == Prompt(r, ctxs)
         IN  IF OpenRouterStage(c) THEN OpenRouterReply(r, prompt, o.llm)
             ELSE IF OpenAIStage(c) THEN OpenAIReply(r, prompt, o.llm)
             ELSE LocalReply(r, prompt)

Answered(i) == hs[i].pc = "done"
SameRequest(i, j) == hs[i].server = hs[j].server /\ hs[i].parsed = hs[j].parsed

\* C13 as stated: under any interleaving, the response to a request is a
\* function of the request's own fields and the configuration only, so two
\* handlers given the same request return the same response.
C13_RequestAndConfigOnly ==
    \A i, j \in Handlers :
        (Answered(i) /\ Answered(j) /\ SameRequest(i, j)) => hs[i].resp = hs[j].resp

\* C13 amended: under any interleaving, the response to a request is a
\* function of the request's own fields, the configuration and the outcomes
\* of the request's own external calls; what another handler does never
\* changes it; two identical requests whose external calls had the same
\* outcomes receive identical responses, and so do two identical framework
\* requests answered by the local fallback, which makes no external call.
C13_OwnInputsOnly ==
    /\ \A i \in Handlers :
            Answered(i) => hs[i].resp = Answer(cfg, hs[i].server, hs[i].parsed, hs[i].outs)
    /\ \A i, j \in Handlers :
            (Answered(i) /\ Answered(j) /\ SameRequest(i, j))
                => \/ hs[i].resp = hs[j].resp
                   \/ /\ hs[i].outs # hs[j].outs
                      /\ ~(hs[i].server = "framework" /\ LocalStage(cfg))

\* two handlers have answered the same request, each after its own embedding
\* and index calls, and both retrieved a snippet
C13_Witness ==
    /\ Answered(1) /\ Answered(2)
    /\ SameRequest(1, 2)
    /\ hs[1].outs = hs[2].outs
    /\ hs[1].outs.called >= 2
    /\ hs[1].contexts # <<>> /\ hs[2].contexts # <<>>

====
